---- MODULE Spec2Model ----
(***************************************************************************)
(* A model of tf2onnx/rewriter/lstm_rewriter.py (LSTMUnitRewriter): the    *)
(* weight extractor and weight/bias transformer, the loop-state            *)
(* classifiers, the initial-state builder and the output reconnector.      *)
(*                                                                         *)
(* Tensors are sequences (vectors), sequences of rows (matrices) and       *)
(* sequences of matrices.  A node of the graph is named by a pair          *)
(* <<prefix, number>>, as utils.make_name names it; the tensor id of its   *)
(* k-th output is <<node, k>>.                                             *)
(***************************************************************************)
EXTENDS Integers, Sequences, FiniteSets, TLC

VARIABLES
    match,            \* what the pattern matcher bound: the cell's constants
    rnn_weights,      \* the RnnWeights get_weight_and_bias returned
    rnn_props,        \* the per-match RnnProps record
    nodes,            \* the graph: node name -> [type, input, attr]
    const_val,        \* values of the constants made by process_weights_and_bias
    all_nodes,        \* self.all_nodes, a list of node names
    must_keep_nodes,  \* self.must_keep_nodes, a list of node names
    name_counter,     \* the counter behind utils.make_name
    call,             \* the arguments of the call under way
    ret,              \* what the last call returned
    pc                \* where the rewrite of this match stands

vars == <<match, rnn_weights, rnn_props, nodes, const_val, all_nodes,
          must_keep_nodes, name_counter, call, ret, pc>>

(***************************************************************************)
(* Bounds of the model.                                                    *)
(***************************************************************************)
MaxHidden == 2
MaxRows == 3

(***************************************************************************)
(* Python and numpy helpers.                                               *)
(***************************************************************************)
Range(s) == {s[i] : i \in DOMAIN s}

Max(a, b) == IF a >= b THEN a ELSE b

\* dict[key] = value
Put(d, key, value) ==
    [k \in DOMAIN d \cup {key} |-> IF k = key THEN value ELSE d[k]]

\* columns lo+1 .. hi of one row
Cols(row, lo, hi) == [j \in 1..(hi - lo) |-> row[lo + j]]

\* np.split(m, 4, axis=1)[k] of a matrix whose rows have 4*h columns, k = 0..3
Gate(m, h, k) == [r \in 1..Len(m) |-> Cols(m[r], k * h, (k + 1) * h)]

\* np.concatenate((a, b, c, d), axis=1) of four matrices with the same rows
Concat4(a, b, c, d) == [r \in 1..Len(a) |-> a[r] \o b[r] \o c[r] \o d[r]]

\* np.transpose of a matrix with ncols columns (it may have no row)
Transpose(m, ncols) == [c \in 1..ncols |-> [r \in 1..Len(m) |-> m[r][c]]]

\* np.add(m, scalar)
AddScalar(m, s) == [r \in 1..Len(m) |-> [c \in 1..Len(m[r]) |-> m[r][c] + s]]

\* np.zeros((1, n))
Zeros(n) == << [c \in 1..n |-> 0] >>

\* np.split(w, [-h]): the rows before the last h, and the last h rows
SplitRowsAt(w, h) ==
    LET cut == IF h = 0 THEN 0 ELSE Max(Len(w) - h, 0)
    IN  << SubSeq(w, 1, cut), SubSeq(w, cut + 1, Len(w)) >>

\* a slip: the blocks concatenated in their native order
ReorderGatesNot(m, h) == Concat4(Gate(m, h, 0), Gate(m, h, 1), Gate(m, h, 2), Gate(m, h, 3))

\* the gate blocks of a native (i, c, f, o) matrix in fused (i, o, f, c) order
ReorderGates(m, h) == Concat4(Gate(m, h, 0), Gate(m, h, 3), Gate(m, h, 2), Gate(m, h, 1))

\* a slip: the scalar added to bias_gates[1], the cell block
FoldIntoCellBias(b, h, ft) ==
    Concat4(Gate(b, h, 0), Gate(b, h, 3), Gate(b, h, 2), AddScalar(Gate(b, h, 1), ft))

\* the forward bias: the forget block plus the forget-bias scalar, fused order
FoldForgetBias(b, h, ft) ==
    Concat4(Gate(b, h, 0), Gate(b, h, 3), AddScalar(Gate(b, h, 2), ft), Gate(b, h, 1))

(***************************************************************************)
(* The graph model the rewriter consumes.                                  *)
(***************************************************************************)
\* the tensor id of output k of a node
Out(n, k) == <<n, k>>

\* the k-th name utils.make_name hands out from here on
NewName(prefix, k) == <<prefix, name_counter + k>>

\* a node as make_onnx_node and Graph.make_const build it
Node(type, input, attr) == [type |-> type, input |-> input, attr |-> attr]

NoAttr == [axes |-> <<>>]

\* RnnProps before any builder wrote to it
NewRnnProps(time_major, inputs) ==
    [input_size |-> -1, hidden_size |-> -1, time_major |-> time_major,
     var_initializers |-> <<>>, onnx_input_ids |-> inputs,
     batch_size_node |-> <<>>]

(***************************************************************************)
(* Weight extractor: get_weight_and_bias.                                  *)
(***************************************************************************)
NoWeights == [ok |-> FALSE, kernel |-> <<>>, bias |-> <<>>, forget_bias |-> <<>>]

get_weight_and_bias(m) ==
    IF ~m.kernel_const THEN NoWeights
    ELSE IF m.data_format # "NHWC" THEN NoWeights
    ELSE IF ~m.bias_const \/ Len(m.bias) # Len(m.kernel[1]) THEN NoWeights
    ELSE IF ~m.ft_const THEN NoWeights
    ELSE IF ~(Len(m.ft) = 1 /\ m.b_dtype = m.ft_dtype) THEN NoWeights
    ELSE [ok |-> TRUE, kernel |-> m.kernel, bias |-> m.bias, forget_bias |-> m.ft]

(***************************************************************************)
(* Weight/bias transformer: process_weights_and_bias.                      *)
(***************************************************************************)
\* a slip: np.array_split, which never raises
SplitRaisesNever(ncols) == FALSE

\* np.split(a, 4, axis=1) raises ValueError unless the columns divide by 4
SplitRaises(ncols) == ncols % 4 # 0

\* the arrays and sizes the transformer computes, or raised = TRUE
process_weights_and_bias(w) ==
    LET bias_dim == Len(w.bias)
        hidden_size == bias_dim \div 4
        b_r_icfo == << w.bias >>
        split == SplitRowsAt(w.kernel, hidden_size)
        wx == split[1]
        wh == split[2]
        input_size == Len(wx)
        ncols == Len(w.kernel[1])
    IN  IF SplitRaises(bias_dim) \/ (ncols \div 4) # hidden_size \/ SplitRaises(ncols)
        THEN [raised |-> TRUE, input_size |-> -1, hidden_size |-> -1,
              W |-> <<>>, R |-> <<>>, B |-> <<>>]
        ELSE [raised |-> FALSE, input_size |-> input_size, hidden_size |-> hidden_size,
              W |-> << Transpose(ReorderGates(wx, hidden_size), 4 * hidden_size) >>,
              R |-> << Transpose(ReorderGates(wh, hidden_size), 4 * hidden_size) >>,
              B |-> [r \in 1..1 |->
                        FoldForgetBias(b_r_icfo, hidden_size, w.forget_bias[1])[r]
                        \o Zeros(bias_dim)[r]]]

\* the keys create_rnn_node reads from onnx_input_ids
LstmInputKeys == <<"X", "W", "R", "B", "sequence_lens", "initial_h", "initial_c">>

(***************************************************************************)
(* The rewrite of one match, as far as the weights go: extract, transform, *)
(* build the fused node.  A match whose weights are refused is skipped; an *)
(* exception ends the rewrite.                                             *)
(***************************************************************************)
GetWeightAndBias ==
    /\ pc = "start"
    /\ rnn_weights' = get_weight_and_bias(match)
    /\ pc' = IF rnn_weights'.ok THEN "weights" ELSE "skipped"
    /\ UNCHANGED <<match, rnn_props, nodes, const_val, all_nodes, must_keep_nodes,
                   name_counter, call, ret>>

ProcessWeightsAndBias ==
    /\ pc = "weights"
    /\ LET t == process_weights_and_bias(rnn_weights)
           w_name == NewName("W", 1)
           r_name == NewName("R", 2)
           b_name == NewName("B", 3)
       IN  IF t.raised
           THEN /\ pc' = "fatal"
                /\ UNCHANGED <<rnn_props, nodes, const_val, name_counter>>
           ELSE /\ nodes' = Put(Put(Put(nodes,
                                w_name, Node("Const", <<>>, NoAttr)),
                                r_name, Node("Const", <<>>, NoAttr)),
                                b_name, Node("Const", <<>>, NoAttr))
                /\ const_val' = Put(Put(Put(const_val, w_name, t.W), r_name, t.R), b_name, t.B)
                /\ name_counter' = name_counter + 3
                /\ rnn_props' = [rnn_props EXCEPT
                       !.input_size = t.input_size,
                       !.hidden_size = t.hidden_size,
                       !.onnx_input_ids = Put(Put(Put(@, "W", Out(w_name, 0)),
                                                          "R", Out(r_name, 0)),
                                                          "B", Out(b_name, 0))]
                /\ pc' = "transformed"
    /\ UNCHANGED <<match, rnn_weights, all_nodes, must_keep_nodes, call, ret>>

CreateRnnNode ==
    /\ pc = "transformed"
    /\ LET inputs == rnn_props.onnx_input_ids
           lstm == NewName("LSTM", 1)
       IN  IF Range(LstmInputKeys) \subseteq DOMAIN inputs
           THEN /\ nodes' = Put(nodes, lstm,
                                Node("LSTM",
                                     [i \in DOMAIN LstmInputKeys |-> inputs[LstmInputKeys[i]]],
                                     [hidden_size |-> <<rnn_props.hidden_size>>]))
                /\ name_counter' = name_counter + 1
                /\ ret' = <<lstm>>
                /\ pc' = "fused"
           ELSE /\ pc' = "fatal"
                /\ UNCHANGED <<nodes, name_counter, ret>>
    /\ UNCHANGED <<match, rnn_weights, rnn_props, const_val, all_nodes, must_keep_nodes, call>>

(***************************************************************************)
(* The matches the weight specification starts from.                       *)
(***************************************************************************)
Bool == {TRUE, FALSE}

KernelOf(rows, ncols, base) ==
    [r \in 1..rows |-> [c \in 1..ncols |-> base + (r - 1) * ncols + c]]

BiasOf(n, base) == [i \in 1..n |-> base + 10 * i]

ForgetBiases == {<<0>>, <<1>>, <<-3>>, <<1, 1>>}

WeightMatches ==
    { [kernel_const |-> kc, kernel |-> KernelOf(rows, n + extra, kbase),
       data_format |-> fmt, bias_const |-> bc, bias |-> BiasOf(n, bbase),
       ft_const |-> fc, ft |-> ft, b_dtype |-> "float32", ft_dtype |-> fd] :
         kc \in Bool, bc \in Bool, fc \in Bool, fmt \in {"NHWC", "NCHW"},
         rows \in 1..MaxRows, n \in 1..(4 * MaxHidden), extra \in {0, 4},
         kbase \in {0}, bbase \in {0, 5},
         ft \in ForgetBiases, fd \in {"float32", "float64"} }

\* the fused operator's inputs the other builders record
OtherInputs ==
    [k \in {"X", "sequence_lens", "initial_h", "initial_c"} |-> Out(<<k, 0>>, 0)]

InputX == [k \in {"X"} |-> Out(<<k, 0>>, 0)]

InitWeights ==
    /\ match \in WeightMatches
    /\ rnn_weights = NoWeights
    /\ rnn_props \in {NewRnnProps(TRUE, i) : i \in {InputX, OtherInputs}}
    /\ nodes = <<>>
    /\ const_val = <<>>
    /\ all_nodes = <<>>
    /\ must_keep_nodes = <<>>
    /\ name_counter = 0
    /\ call = <<>>
    /\ ret = <<>>
    /\ pc = "start"

NextWeights == GetWeightAndBias \/ ProcessWeightsAndBias \/ CreateRnnNode

SpecWeights == InitWeights /\ [][NextWeights]_vars

(***************************************************************************)
(* Claims about the weight extractor and the weight/bias transformer.      *)
(***************************************************************************)
BiasLen == Len(match.bias)

Transformed == pc \in {"transformed", "fused"}

LstmNodes == {n \in DOMAIN nodes : nodes[n].type = "LSTM"}

\* the value of the constant recorded as a fused-operator input
InputConst(key) == const_val[rnn_props.onnx_input_ids[key][1]]

\* C1, as stated: a match whose bias length is not divisible by 4 is skipped
\* by the weight validation and no fused LSTM node is emitted; for every
\* accepted match hidden_size * 4 equals the bias length.
C1_SkippedWhenNotDivisible ==
    /\ (pc # "start" /\ BiasLen % 4 # 0) => (pc = "skipped" /\ LstmNodes = {})
    /\ Transformed => rnn_props.hidden_size * 4 = BiasLen

\* C1, amended: a match whose bias length is not divisible by 4 passes the
\* weight validation whenever its other checks pass, and the transformer then
\* raises at the 4-way split of the bias, before it makes any constant or
\* records any input; no fused LSTM node is emitted.  For every match the
\* transformer completes, hidden_size * 4 equals the bias length.
C1_FatalWhenNotDivisible ==
    /\ BiasLen % 4 # 0 =>
          /\ pc \in {"start", "skipped", "weights", "fatal"}
          /\ (rnn_weights.ok /\ pc # "weights" => pc = "fatal")
          /\ nodes = <<>> /\ const_val = <<>>
          /\ "W" \notin DOMAIN rnn_props.onnx_input_ids
          /\ rnn_props.hidden_size = -1
    /\ Transformed => rnn_props.hidden_size * 4 = BiasLen

C1_Witness == pc = "fatal" /\ rnn_weights.ok /\ BiasLen % 4 # 0 /\ BiasLen > 4

\* the four column blocks of a fused-order (i, o, f, c) matrix put back in
\* native order (i, c, f, o)
NativeOrder(m, h) ==
    [r \in 1..Len(m) |->
        Cols(m[r], 0, h) \o Cols(m[r], 3 * h, 4 * h)
        \o Cols(m[r], 2 * h, 3 * h) \o Cols(m[r], h, 2 * h)]

\* C2: for a kernel of shape (input_size + hidden_size, 4 * hidden_size), W
\* and R are a permutation of it: transposed back and put in native gate
\* order, W is the first input_size rows and R the last hidden_size rows, and
\* stacked they are the kernel.
C2_WeightsArePermutation ==
    (Transformed /\ Len(match.kernel) >= rnn_props.hidden_size) =>
        LET h == rnn_props.hidden_size
            n == rnn_props.input_size
            k == match.kernel
            W == InputConst("W")
            R == InputConst("R")
            wx == NativeOrder(Transpose(W[1], n), h)
            wh == NativeOrder(Transpose(R[1], h), h)
        IN  /\ Len(W) = 1 /\ Len(W[1]) = 4 * h
            /\ Len(R) = 1 /\ Len(R[1]) = 4 * h
            /\ n + h = Len(k)
            /\ wx = SubSeq(k, 1, n)
            /\ wh = SubSeq(k, n + 1, n + h)
            /\ wx \o wh = k

C2_Witness ==
    /\ pc = "transformed"
    /\ rnn_props.hidden_size = 2 /\ rnn_props.input_size = 1
    /\ Len(match.kernel) = 3

\* C3: B is twice as wide as the native bias; in fused order its input,
\* output and cell blocks are the native blocks, its forget block is the
\* native forget block plus the forget-bias scalar, and its second half is 0.
C3_BiasFolded ==
    Transformed =>
        LET h == rnn_props.hidden_size
            b == match.bias
            ft == match.ft[1]
            B == InputConst("B")
        IN  /\ Len(B) = 1 /\ Len(B[1]) = 2 * BiasLen
            /\ \A j \in 1..h :
                  /\ B[1][j] = b[j]
                  /\ B[1][h + j] = b[3 * h + j]
                  /\ B[1][2 * h + j] = b[2 * h + j] + ft
                  /\ B[1][3 * h + j] = b[h + j]
            /\ \A j \in (BiasLen + 1)..(2 * BiasLen) : B[1][j] = 0

C3_Witness ==
    /\ pc = "transformed" /\ rnn_props.hidden_size = 2 /\ match.ft[1] = -3

(***************************************************************************)
(* Graph lookups.                                                          *)
(***************************************************************************)
\* Python's None
None == <<>>

\* Graph.find_output_consumers: the nodes of the graph reading a tensor
find_output_consumers(output) ==
    SelectSeq(all_nodes, LAMBDA n : output \in Range(nodes[n].input))

\* node.inputs[i].get_tensor_value(), i counted from 0
InputValue(n, i) == const_val[nodes[n].input[i + 1][1]]

(***************************************************************************)
(* Loop-state classifier: _ht_switch_check, _ct_ht_shared_switch_check.    *)
(***************************************************************************)
\* a slip: the identity value must have no consumer but xh
_ht_switch_check_sole_consumer(enter_target_node_input_id, identity_consumers, m) ==
    IF identity_consumers = <<m.xh>> THEN enter_target_node_input_id ELSE None

_ht_switch_check(enter_target_node_input_id, identity_consumers, m) ==
    LET concat_nodes == SelectSeq(identity_consumers, LAMBDA c : c = m.xh)
    IN  IF Len(concat_nodes) = 1 THEN enter_target_node_input_id ELSE None

\* the loop over slices from the i-th on; found = <<c_slice, h_slice>>
RECURSIVE SliceScan(_, _, _)
SliceScan(slices, i, found) ==
    IF i > Len(slices) THEN found
    ELSE LET s == slices[i]
             slice_consumers == find_output_consumers(Out(s, 0))
             s_begin == InputValue(s, 1)
             s_size == InputValue(s, 2)
             hidden_size == s_size[2]
         IN  IF Len(slice_consumers) # 1 THEN SliceScan(slices, i + 1, found)
             ELSE IF s_begin = <<0, 0>> THEN SliceScan(slices, i + 1, <<s, found[2]>>)
             ELSE IF s_begin = <<0, hidden_size>>
                  THEN SliceScan(slices, i + 1, <<found[1], s>>)
             ELSE SliceScan(slices, i + 1, found)

_ct_ht_shared_switch_check(enter_target_node_input_id, identity_consumers, m) ==
    LET slices == SelectSeq(identity_consumers, LAMBDA c : nodes[c].type = "Slice")
        found == SliceScan(slices, 1, <<None, None>>)
    IN  IF slices = <<>> THEN None
        ELSE IF found[1] # None /\ found[2] # None THEN enter_target_node_input_id
        ELSE None

(***************************************************************************)
(* The graphs the classifier specification starts from: the loop identity  *)
(* value read by the xh node, or not, and by up to MaxSlices Slice nodes,  *)
(* each with its begin and size constants and its own consumers.           *)
(***************************************************************************)
MaxSlices == 3

IdentityNode == <<"Identity", 0>>
XhNode == <<"xh", 0>>
EnterTarget == Out(<<"init", 0>>, 0)

SliceConfigs ==
    [present : {TRUE}, begin : {<<0, 0>>, <<0, 2>>}, size : {<<-1, 1>>, <<-1, 2>>},
     users : 0..2]
    \cup {[present |-> FALSE, begin |-> <<0, 0>>, size |-> <<-1, 1>>, users |-> 0]}

SliceName(i) == <<"Slice", i>>
BeginName(i) == <<"begin", i>>
SizeName(i) == <<"size", i>>
UserName(i, k) == <<"user", 2 * i + k>>

\* the nodes of the graph in the order of Graph.get_nodes()
SwitchNodeList(cfg, has_xh, i) ==
    IF i > MaxSlices THEN (IF has_xh THEN <<XhNode>> ELSE <<>>)
    ELSE IF cfg[i].present
         THEN <<BeginName(i), SizeName(i), SliceName(i)>>
              \o [k \in 1..cfg[i].users |-> UserName(i, k - 1)]
         ELSE <<>>

RECURSIVE SwitchNodeSeq(_, _, _)
SwitchNodeSeq(cfg, has_xh, i) ==
    IF i > MaxSlices THEN SwitchNodeList(cfg, has_xh, i)
    ELSE SwitchNodeList(cfg, has_xh, i) \o SwitchNodeSeq(cfg, has_xh, i + 1)

SwitchNode(cfg, n) ==
    CASE n[1] = "Slice" ->
            Node("Slice", <<Out(IdentityNode, 0), Out(BeginName(n[2]), 0),
                            Out(SizeName(n[2]), 0)>>, NoAttr)
      [] n[1] = "user" -> Node("Mul", <<Out(SliceName(n[2] \div 2), 0)>>, NoAttr)
      [] n[1] = "xh" -> Node("ConcatV2", <<Out(<<"x", 0>>, 0), Out(IdentityNode, 0)>>, NoAttr)
      [] n[1] = "Identity" -> Node("Identity", <<Out(<<"Switch", 0>>, 1)>>, NoAttr)
      [] OTHER -> Node("Const", <<>>, NoAttr)

SwitchConst(cfg, n) == IF n[1] = "begin" THEN cfg[n[2]].begin ELSE cfg[n[2]].size

InitSwitch ==
    \E cfg \in [1..MaxSlices -> SliceConfigs], has_xh \in Bool :
        LET list == <<IdentityNode>> \o SwitchNodeSeq(cfg, has_xh, 1)
        IN  /\ all_nodes = list
            /\ nodes = [n \in Range(list) |-> SwitchNode(cfg, n)]
            /\ const_val = [n \in {x \in Range(list) : x[1] \in {"begin", "size"}} |->
                               SwitchConst(cfg, n)]
            /\ match = [xh |-> XhNode]
            /\ call = [enter_target_node_input_id |-> EnterTarget,
                       identity_consumers |->
                           SelectSeq(list, LAMBDA n :
                               Out(IdentityNode, 0) \in Range(SwitchNode(cfg, n).input))]
            /\ rnn_weights = NoWeights
            /\ rnn_props = NewRnnProps(TRUE, <<>>)
            /\ must_keep_nodes = <<>>
            /\ name_counter = 0
            /\ ret = [fn |-> "", value |-> None]
            /\ pc = "start"

HtSwitchCheck ==
    /\ pc = "start"
    /\ ret' = [fn |-> "ht",
               value |-> _ht_switch_check(call.enter_target_node_input_id,
                                       call.identity_consumers, match)]
    /\ pc' = "checked"
    /\ UNCHANGED <<match, rnn_weights, rnn_props, nodes, const_val, all_nodes,
                   must_keep_nodes, name_counter, call>>

CtHtSharedSwitchCheck ==
    /\ pc = "start"
    /\ ret' = [fn |-> "ct_ht",
               value |-> _ct_ht_shared_switch_check(call.enter_target_node_input_id,
                                               call.identity_consumers, match)]
    /\ pc' = "checked"
    /\ UNCHANGED <<match, rnn_weights, rnn_props, nodes, const_val, all_nodes,
                   must_keep_nodes, name_counter, call>>

NextSwitch == HtSwitchCheck \/ CtHtSharedSwitchCheck

SpecSwitch == InitSwitch /\ [][NextSwitch]_vars

(***************************************************************************)
(* Claims about the loop-state classifier.                                 *)
(***************************************************************************)
Checked(fn) == pc = "checked" /\ ret.fn = fn

Accepted == ret.value = call.enter_target_node_input_id

Rejected == ret.value = None

\* C8, as stated: _ht_switch_check returns the entry tensor id only when the
\* identity value has exactly one consumer in all and it is the xh node, and
\* returns None for every other consumer list.
C8_OnlySoleConsumer ==
    Checked("ht") =>
        /\ Accepted <=> call.identity_consumers = <<match.xh>>
        /\ ~Accepted => Rejected

\* C8, amended: _ht_switch_check returns the entry tensor id exactly when
\* exactly one of the identity value's consumers is the xh node, whatever
\* other nodes consume it, and returns None otherwise.
C8_ExactlyOneXh ==
    Checked("ht") =>
        LET c == call.identity_consumers
        IN  /\ Accepted <=> Cardinality({i \in DOMAIN c : c[i] = match.xh}) = 1
            /\ ~Accepted => Rejected

C8_Witness ==
    /\ Checked("ht") /\ Accepted
    /\ Len(call.identity_consumers) >= 2

\* the Slice consumers of the identity value starting at [0, 0] (kind "c") or
\* at [0, size[1]] (kind "h"); with one_user, those read by exactly one node
SlicesAt(kind, one_user) ==
    {s \in Range(call.identity_consumers) :
        /\ nodes[s].type = "Slice"
        /\ InputValue(s, 1) = (IF kind = "c" THEN <<0, 0>> ELSE <<0, InputValue(s, 2)[2]>>)
        /\ one_user => Len(find_output_consumers(Out(s, 0))) = 1}

\* C9, as stated: _ct_ht_shared_switch_check accepts only if exactly one
\* Slice consumer starts at [0, 0] and exactly one at [0, its own size[1]],
\* each with exactly one consumer; it accepts when that is so and rejects
\* when either kind is missing or occurs more than once.
C9_ExactlyOneSliceOfEachKind ==
    Checked("ct_ht") =>
        /\ Accepted =>
              /\ Cardinality(SlicesAt("c", TRUE)) = 1
              /\ Cardinality(SlicesAt("h", TRUE)) = 1
        /\ ( /\ Cardinality(SlicesAt("c", FALSE)) = 1
             /\ Cardinality(SlicesAt("h", FALSE)) = 1
             /\ Cardinality(SlicesAt("c", TRUE)) = 1
             /\ Cardinality(SlicesAt("h", TRUE)) = 1 ) => Accepted
        /\ ~Accepted => Rejected

(***************************************************************************)
(* Graph mutation.  The builders below mutate the graph and the rewriter's *)
(* lists step by step; a record st carries them through one call: nodes,   *)
(* const_val, all_nodes, must_keep_nodes, name_counter, and error, the     *)
(* exception raised (None while there is none).                            *)
(***************************************************************************)
CurrentState ==
    [nodes |-> nodes, const_val |-> const_val, all_nodes |-> all_nodes,
     must_keep_nodes |-> must_keep_nodes, name_counter |-> name_counter,
     error |-> None]

\* Graph.get_nodes(): the graph's node list, the list self.all_nodes names
get_nodes(st) == st.all_nodes

\* Graph.replace_all_inputs(ops, old_input, new_input)
replace_all_inputs(ns, ops, old_input, new_input) ==
    [n \in DOMAIN ns |->
        IF n \in Range(ops)
        THEN [ns[n] EXCEPT !.input =
                 [i \in DOMAIN @ |-> IF @[i] = old_input THEN new_input ELSE @[i]]]
        ELSE ns[n]]

\* list.remove(x): without the first x; the caller sees to x being there
ListRemove(list, x) ==
    LET first == CHOOSE i \in DOMAIN list :
                     list[i] = x /\ \A j \in 1..(i - 1) : list[j] # x
    IN  SubSeq(list, 1, first - 1) \o SubSeq(list, first + 1, Len(list))

\* list.remove(x) raises ValueError when x is not in the list
RemoveError == <<"ValueError", "list.remove(x): x not in list">>
NoInitializersError == <<"ValueError", "no initializers, unexpected">>
AssertionError == <<"AssertionError", "">>

\* make_onnx_node / make_const: the node registered under the k-th new name
WithNode(st, name, node) == [st EXCEPT !.nodes = Put(@, name, node)]

WithConst(st, name, value) ==
    [st EXCEPT !.nodes = Put(@, name, Node("Const", <<>>, NoAttr)),
               !.const_val = Put(@, name, value)]

(***************************************************************************)
(* Fill workaround: _workaround_fill_ch_init_node.                         *)
(***************************************************************************)
_workaround_fill_ch_init_node(st, initializer_input_id, props) ==
    LET node == initializer_input_id[1]
        c == st.name_counter
        fill_val == st.const_val[st.nodes[node].input[2][1]][1]
        num_direction_node == <<"Const", c + 1>>
        h_node == <<"Const", c + 2>>
        b_node == props.batch_size_node
        tile_shape == <<"Concat", c + 3>>
        tile_shape_int64 == <<"Cast", c + 4>>
        const_node == <<"Const", c + 5>>
        tile_node == <<"Tile", c + 6>>
        st1 == WithConst(st, num_direction_node, <<1>>)
        st2 == WithConst(st1, h_node, <<props.hidden_size>>)
        st3 == WithNode(st2, tile_shape,
                   Node("Concat", <<Out(num_direction_node, 0), Out(b_node, 0),
                                    Out(h_node, 0)>>, [axis |-> <<0>>]))
        st4 == WithNode(st3, tile_shape_int64,
                   Node("Cast", <<Out(tile_shape, 0)>>, [to |-> <<"INT64">>]))
        st5 == WithConst(st4, const_node, << << <<fill_val>> >> >>)
        st6 == WithNode(st5, tile_node,
                   Node("Tile", <<Out(const_node, 0), Out(tile_shape_int64, 0)>>, NoAttr))
    IN  IF st.nodes[node].type # "Fill" THEN [st |-> st, result |-> None]
        ELSE IF node \notin Range(st.must_keep_nodes)
             THEN [st |-> [st EXCEPT !.error = RemoveError], result |-> None]
        ELSE [st |-> [st6 EXCEPT
                         !.must_keep_nodes = ListRemove(st.must_keep_nodes, node),
                         !.all_nodes = @ \o <<tile_shape, tile_shape_int64, tile_node>>,
                         !.name_counter = c + 6],
              result |-> tile_node]

(***************************************************************************)
(* Initial-state builder: process_var_init_nodes and its branches.  Each   *)
(* returns the state it leaves and the ids <<init_h_id, init_c_id>>.       *)
(***************************************************************************)
\* lines 257-270: what follows the Fill workaround in the shared branch
NonTupleAfterFill(fill, st, props) ==
    LET input_id == props.var_initializers["ct_ht"]
        hidden_size == props.hidden_size
        c == st.name_counter
        slice_node1 == <<"Slice", c + 1>>
        unsqueeze_node_1 == <<"Unsqueeze", c + 2>>
        slice_node2 == <<"Slice", c + 3>>
        unsqueeze_node_2 == <<"Unsqueeze", c + 4>>
        st1 == WithNode(st, slice_node1,
                   Node("Slice", <<input_id>>,
                        [axes |-> <<1>>, starts |-> <<0>>, ends |-> <<hidden_size>>]))
        st2 == WithNode(st1, unsqueeze_node_1,
                   Node("Unsqueeze", <<Out(slice_node1, 0)>>, [axes |-> <<0>>]))
        st3 == WithNode(st2, slice_node2,
                   Node("Slice", <<input_id>>,
                        [axes |-> <<1>>, starts |-> <<hidden_size>>,
                         ends |-> <<hidden_size * 2>>]))
        st4 == WithNode(st3, unsqueeze_node_2,
                   Node("Unsqueeze", <<Out(slice_node2, 0)>>, [axes |-> <<0>>]))
    IN  IF fill.st.error # None THEN [st |-> fill.st, ids |-> <<None, None>>]
        ELSE IF fill.result # None
             THEN [st |-> fill.st, ids |-> <<Out(fill.result, 0), Out(fill.result, 0)>>]
        ELSE [st |-> [st4 EXCEPT
                         !.all_nodes = @ \o <<slice_node1, slice_node2,
                                              unsqueeze_node_1, unsqueeze_node_2>>,
                         !.must_keep_nodes = Append(@, input_id[1]),
                         !.name_counter = c + 4],
              ids |-> <<Out(unsqueeze_node_1, 0), Out(unsqueeze_node_2, 0)>>]

_process_non_tuple_ch_init_nodes(st, props) ==
    NonTupleAfterFill(
        _workaround_fill_ch_init_node(st, props.var_initializers["ct_ht"], props),
        st, props)

\* a slip: the new Unsqueeze is in the node list before the inputs are replaced
COrHAfterFillRewiresItself(fill, st, initializer_input_id) ==
    LET node == initializer_input_id[1]
        c == st.name_counter
        kept == [st EXCEPT !.must_keep_nodes = Append(@, node)]
        const_node == <<"Const", c + 1>>
        squeeze_node == <<"Unsqueeze", c + 1>>
        made == WithNode(kept, squeeze_node,
                    Node("Unsqueeze", <<initializer_input_id>>, [axes |-> <<0>>]))
    IN  IF fill.st.error # None THEN [st |-> fill.st, id |-> None]
        ELSE IF fill.result # None THEN [st |-> fill.st, id |-> Out(fill.result, 0)]
        ELSE IF st.nodes[node].type = "Const"
             THEN [st |-> [WithConst(kept, const_node, <<st.const_val[node]>>)
                              EXCEPT !.name_counter = c + 1],
                   id |-> Out(const_node, 0)]
        ELSE [st |-> [nodes |-> replace_all_inputs(made.nodes,
                                    Append(get_nodes(kept), squeeze_node),
                                    initializer_input_id, Out(squeeze_node, 0)),
                      const_val |-> st.const_val,
                      all_nodes |-> Append(st.all_nodes, squeeze_node),
                      must_keep_nodes |-> kept.must_keep_nodes,
                      name_counter |-> c + 1,
                      error |-> None],
              id |-> Out(squeeze_node, 0)]

\* lines 282-297: what follows the Fill workaround for one of the two slots
COrHAfterFill(fill, st, initializer_input_id) ==
    LET node == initializer_input_id[1]
        c == st.name_counter
        kept == [st EXCEPT !.must_keep_nodes = Append(@, node)]
        const_node == <<"Const", c + 1>>
        squeeze_node == <<"Unsqueeze", c + 1>>
        made == WithNode(kept, squeeze_node,
                    Node("Unsqueeze", <<initializer_input_id>>, [axes |-> <<0>>]))
    IN  IF fill.st.error # None THEN [st |-> fill.st, id |-> None]
        ELSE IF fill.result # None THEN [st |-> fill.st, id |-> Out(fill.result, 0)]
        ELSE IF st.nodes[node].type = "Const"
             THEN [st |-> [WithConst(kept, const_node, <<st.const_val[node]>>)
                              EXCEPT !.name_counter = c + 1],
                   id |-> Out(const_node, 0)]
        ELSE [st |-> [nodes |-> replace_all_inputs(made.nodes, get_nodes(kept),
                                    initializer_input_id, Out(squeeze_node, 0)),
                      const_val |-> st.const_val,
                      all_nodes |-> Append(st.all_nodes, squeeze_node),
                      must_keep_nodes |-> kept.must_keep_nodes,
                      name_counter |-> c + 1,
                      error |-> None],
              id |-> Out(squeeze_node, 0)]

\* returns the state it leaves and the id of the new initial state
_process_c_or_h_init_nodes(st, initializer_input_id, props) ==
    COrHAfterFill(_workaround_fill_ch_init_node(st, initializer_input_id, props),
                  st, initializer_input_id)

\* line 277, or the exception of either call
TupleResult(h, c) ==
    IF c.st.error # None THEN [st |-> c.st, ids |-> <<None, None>>]
    ELSE [st |-> c.st, ids |-> <<h.id, c.id>>]

\* line 276, unless the first call raised
TupleAfterH(h, props) ==
    IF h.st.error # None THEN [st |-> h.st, ids |-> <<None, None>>]
    ELSE TupleResult(h, _process_c_or_h_init_nodes(h.st, props.var_initializers["ct"], props))

_process_tuple_ch_init_nodes(st, props) ==
    TupleAfterH(_process_c_or_h_init_nodes(st, props.var_initializers["ht"], props), props)

\* the branch process_var_init_nodes takes
InitBranch(keys) ==
    IF "ct_ht" \in keys THEN "shared"
    ELSE IF "ct" \in keys /\ "ht" \in keys THEN "tuple"
    ELSE "none"

\* line 246: assert init_h_id and init_c_id
AssertIds(r) ==
    IF r.st.error # None THEN r
    ELSE IF r.ids[1] = None \/ r.ids[2] = None
         THEN [st |-> [r.st EXCEPT !.error = AssertionError], ids |-> r.ids]
    ELSE r

process_var_init_nodes(st, props) ==
    IF InitBranch(DOMAIN props.var_initializers) = "shared"
    THEN AssertIds(_process_non_tuple_ch_init_nodes(st, props))
    ELSE IF InitBranch(DOMAIN props.var_initializers) = "tuple"
         THEN AssertIds(_process_tuple_ch_init_nodes(st, props))
    ELSE [st |-> [st EXCEPT !.error = NoInitializersError], ids |-> <<None, None>>]

(***************************************************************************)
(* The initial-state builder called on one match, up to MaxCalls times.    *)
(* The graph holds up to MaxInits initializer nodes (a Fill with its dims  *)
(* and value inputs, a constant, or a computed value), each read by the    *)
(* loop's Enter node, and the batch-size node of process_seq_length.       *)
(***************************************************************************)
MaxInits == 2
MaxCalls == 2

InitializerKinds == {"Fill", "Const", "Placeholder"}
SlotNames == <<"ct", "ht", "ct_ht">>
BatchSizeNode == <<"Slice", 0>>

InitializerName(k) == <<"init", k>>

InitializerList(kinds, k) ==
    (IF kinds[k] = "Fill" THEN <<<<"dims", k>>, <<"value", k>>>> ELSE <<>>)
    \o <<InitializerName(k), <<"Enter", k>>>>

RECURSIVE InitializerSeq(_, _)
InitializerSeq(kinds, k) ==
    IF k > MaxInits THEN <<BatchSizeNode>>
    ELSE InitializerList(kinds, k) \o InitializerSeq(kinds, k + 1)

InitializerNode(kinds, n) ==
    CASE n[1] = "init" /\ kinds[n[2]] = "Fill" ->
            Node("Fill", <<Out(<<"dims", n[2]>>, 0), Out(<<"value", n[2]>>, 0)>>, NoAttr)
      [] n[1] = "init" /\ kinds[n[2]] # "Fill" -> Node(kinds[n[2]], <<>>, NoAttr)
      [] n[1] = "Enter" -> Node("Enter", <<Out(InitializerName(n[2]), 0)>>, NoAttr)
      [] n[1] = "Slice" -> Node("Slice", <<Out(<<"Cast", 0>>, 0)>>, NoAttr)
      [] OTHER -> Node("Const", <<>>, NoAttr)

InitializerConst(n, h) ==
    CASE n[1] = "value" -> <<n[2]>>
      [] n[1] = "dims" -> <<2, h>>
      [] OTHER -> << [j \in 1..h |-> n[2]], [j \in 1..h |-> n[2] + 10] >>

\* the must-keep list the builder is handed holds every classified
\* initializer: once for each slot that names it ...
RECURSIVE RegisteredInitializers(_, _)
RegisteredInitializers(vi, i) ==
    IF i > Len(SlotNames) THEN <<>>
    ELSE (IF SlotNames[i] \in DOMAIN vi THEN <<vi[SlotNames[i]][1]>> ELSE <<>>)
         \o RegisteredInitializers(vi, i + 1)

\* ... or once for each node, as a set would
RECURSIVE RegisteredOnce(_, _)
RegisteredOnce(vi, k) ==
    IF k > MaxInits THEN <<>>
    ELSE (IF \E key \in DOMAIN vi : vi[key][1] = InitializerName(k)
          THEN <<InitializerName(k)>> ELSE <<>>)
         \o RegisteredOnce(vi, k + 1)

VarInitializers ==
    UNION { [keys -> {Out(InitializerName(k), 0) : k \in 1..MaxInits}] :
                keys \in SUBSET Range(SlotNames) }

InitBuilder ==
    \E kinds \in [1..MaxInits -> InitializerKinds], vi \in VarInitializers,
       h \in 1..MaxHidden :
        LET list == InitializerSeq(kinds, 1)
        IN  /\ all_nodes = list
            /\ nodes = [n \in Range(list) |-> InitializerNode(kinds, n)]
            /\ const_val = [n \in {x \in Range(list) :
                                     InitializerNode(kinds, x).type = "Const"} |->
                               InitializerConst(n, h)]
            /\ must_keep_nodes \in {RegisteredInitializers(vi, 1), RegisteredOnce(vi, 1)}
            /\ rnn_props = [NewRnnProps(TRUE, InputX) EXCEPT
                               !.hidden_size = h,
                               !.var_initializers = vi,
                               !.batch_size_node = BatchSizeNode]
            /\ match = <<>>
            /\ rnn_weights = NoWeights
            /\ name_counter = 0
            /\ call = [calls |-> 0]
            /\ ret = [fn |-> "", value |-> None]
            /\ pc = "start"

\* lines 247-248, or the exception the call ends with
ProcessVarInitNodesEnds(r) ==
    /\ nodes' = r.st.nodes
    /\ const_val' = r.st.const_val
    /\ all_nodes' = r.st.all_nodes
    /\ must_keep_nodes' = r.st.must_keep_nodes
    /\ name_counter' = r.st.name_counter
    /\ IF r.st.error = None
       THEN /\ rnn_props' = [rnn_props EXCEPT !.onnx_input_ids =
                                Put(Put(@, "initial_h", r.ids[1]), "initial_c", r.ids[2])]
            /\ ret' = [fn |-> "process_var_init_nodes", value |-> r.ids]
            /\ pc' = "built"
       ELSE /\ rnn_props' = rnn_props
            /\ ret' = [fn |-> "process_var_init_nodes", value |-> r.st.error]
            /\ pc' = "fatal"

ProcessVarInitNodes ==
    /\ pc \in {"start", "built"}
    /\ call.calls < MaxCalls
    /\ call' = [calls |-> call.calls + 1]
    /\ ProcessVarInitNodesEnds(process_var_init_nodes(CurrentState, rnn_props))
    /\ UNCHANGED <<match, rnn_weights>>

NextBuilder == ProcessVarInitNodes

SpecBuilder == InitBuilder /\ [][NextBuilder]_vars

(***************************************************************************)
(* Claims about the initial-state builder.                                 *)
(***************************************************************************)
SlotKeys == DOMAIN rnn_props.var_initializers

OneCombination == SlotKeys = {"ct_ht"} \/ SlotKeys = {"ct", "ht"}

InitialStateSet ==
    {"initial_h", "initial_c"} \cap DOMAIN rnn_props.onnx_input_ids # {}

\* C6, as stated: a second call of process_var_init_nodes with the same
\* RnnProps succeeds, returns the ids the first call returned, and leaves the
\* graph's nodes and the must-keep list as the first call left them.
C6_SecondCallChangesNothing ==
    [][ (pc = "built" /\ call' # call) =>
            /\ pc' = "built"
            /\ ret'.value = ret.value
            /\ rnn_props'.onnx_input_ids = rnn_props.onnx_input_ids
            /\ nodes' = nodes
            /\ all_nodes' = all_nodes
            /\ must_keep_nodes' = must_keep_nodes ]_vars

\* C7, as stated: process_var_init_nodes proceeds only when the slots are
\* 'ct_ht' alone or 'ct' and 'ht' without 'ct_ht'; for every other key set it
\* raises the construction error and sets neither initial_h nor initial_c.
C7_ExactlyOneCombination ==
    call.calls >= 1 =>
        /\ pc = "built" => OneCombination
        /\ ~OneCombination =>
              /\ pc = "fatal" /\ ret.value = NoInitializersError
              /\ ~InitialStateSet

\* C10, as stated: after the builder finished, in the shared and in the tuple
\* branch, every classified initializer that is not a Fill node is in the
\* must-keep list and every one that is a Fill node is not; and the builder
\* never fails because a Fill initializer is not in the must-keep list.
C10_MustKeepFollowsInitializers ==
    OneCombination =>
        /\ pc = "built" =>
              \A k \in SlotKeys :
                  LET n == rnn_props.var_initializers[k][1]
                  IN  nodes[n].type # "Fill" <=> n \in Range(must_keep_nodes)
        /\ ~(pc = "fatal" /\ ret.value = RemoveError)

(***************************************************************************)
(* Output reconnector: _connect_lstm_output_to_graph.                      *)
(***************************************************************************)
ExitCheckError == <<"ValueError", "lstm output exit node check failed">>
TransposeError == <<"ValueError", "batch major should expect a transpose after gather">>

TimeMajorPerm == <<1, 0, 2>>

\* Graph.find_output_consumers in the state st
ConsumersIn(st, output) ==
    SelectSeq(st.all_nodes, LAMBDA n : output \in Range(st.nodes[n].input))

\* check_is_timemajor_transpose(node)
check_is_timemajor_transpose(st, n) ==
    st.nodes[n].type = "Transpose" /\ st.nodes[n].attr.perm = TimeMajorPerm

\* the loop of _validate_output_exit_consumers from the i-th consumer on
RECURSIVE ValidateScan(_, _, _, _)
ValidateScan(st, exit_consumers, i, gather_node) ==
    IF i > Len(exit_consumers) THEN gather_node
    ELSE IF st.nodes[exit_consumers[i]].type = "TensorArrayGatherV3"
         THEN ValidateScan(st, exit_consumers, i + 1, exit_consumers[i])
    ELSE IF st.nodes[exit_consumers[i]].type = "TensorArraySizeV3"
         THEN ValidateScan(st, exit_consumers, i + 1, gather_node)
    ELSE None

_validate_output_exit_consumers(st, exit_consumers) ==
    IF Len(exit_consumers) # 2 THEN None
    ELSE ValidateScan(st, exit_consumers, 1, None)

\* a slip: the consumers of the old transpose are left reading it
BatchMajorKeepsOldTranspose(st, squeeze_node, gather_output_id, trans) ==
    LET new_trans == <<"Transpose", st.name_counter + 1>>
        made == WithNode(st, new_trans,
                    Node("Transpose", <<Out(squeeze_node, 0)>>, [perm |-> TimeMajorPerm]))
    IN  [made EXCEPT !.all_nodes = Append(@, new_trans),
                     !.name_counter = @ + 1]

\* lines 441-450: the new transpose after the squeeze takes the old one's place
BatchMajorTranspose(st, squeeze_node, gather_output_id, trans) ==
    LET new_trans == <<"Transpose", st.name_counter + 1>>
        made == WithNode(st, new_trans,
                    Node("Transpose", <<Out(squeeze_node, 0)>>, [perm |-> TimeMajorPerm]))
    IN  [made EXCEPT !.nodes = replace_all_inputs(@, st.all_nodes,
                                   Out(trans, 0), Out(new_trans, 0)),
                     !.all_nodes = Append(@, new_trans),
                     !.name_counter = @ + 1]

\* lines 452-453
RedirectGather(st, squeeze_node, gather_output_id) ==
    IF st.error # None THEN st
    ELSE [st EXCEPT !.nodes = replace_all_inputs(@, st.all_nodes,
                                  gather_output_id, Out(squeeze_node, 0)),
                    !.all_nodes = Append(@, squeeze_node)]

\* lines 435-450, st being the state with the squeeze node made
AfterSqueeze(st, squeeze_node, gather_output_id, gather_trans_consumers, props) ==
    IF props.time_major THEN st
    ELSE IF Len(gather_trans_consumers) # 1 THEN [st EXCEPT !.error = TransposeError]
    ELSE BatchMajorTranspose(st, squeeze_node, gather_output_id, gather_trans_consumers[1])

\* lines 423-453, once the exit consumers are found valid
ConnectGather(st, lstm_node, gather_node, props) ==
    LET gather_output_id == Out(gather_node, 0)
        squeeze_node == <<"Squeeze", st.name_counter + 1>>
        made == [WithNode(st, squeeze_node,
                     Node("Squeeze", <<Out(lstm_node, 0)>>, [axes |-> <<1>>]))
                 EXCEPT !.name_counter = @ + 1]
        gather_trans_consumers ==
            SelectSeq(ConsumersIn(made, gather_output_id),
                      LAMBDA n : check_is_timemajor_transpose(made, n))
    IN  RedirectGather(
            AfterSqueeze(made, squeeze_node, gather_output_id, gather_trans_consumers, props),
            squeeze_node, gather_output_id)

\* lines 419-421, and the rest
ConnectChecked(st, lstm_node, exit_consumers, gather_node, props) ==
    IF Len(exit_consumers) # 2 \/ gather_node = None
    THEN [st EXCEPT !.error = ExitCheckError]
    ELSE ConnectGather(st, lstm_node, gather_node, props)

_connect_lstm_output_to_graph(st, lstm_node, exit_node, props) ==
    ConnectChecked(st, lstm_node, ConsumersIn(st, Out(exit_node, 0)),
        _validate_output_exit_consumers(st, ConsumersIn(st, Out(exit_node, 0))), props)

(***************************************************************************)
(* The accumulated-output reconnection called on one match.  The graph     *)
(* holds the fused node, the loop exit and up to MaxExitConsumers readers  *)
(* of the exit tensor; a gather is read by up to MaxTrans time-major       *)
(* transposes, each with its own reader, and possibly by another node.     *)
(***************************************************************************)
MaxExitConsumers == 3
MaxTrans == 2

LstmNode == <<"LSTM", 0>>
ExitNode == <<"Exit", 0>>

ExitConsumerName(i) == <<"exit_consumer", i>>
TransName(i, j) == <<"rnn/transpose", 10 * i + j>>
OutputName(i, j) == <<"output", 10 * i + j>>
PlainName(i) == <<"plain", i>>

ExitConsumerConfigs ==
    [type : {"TensorArraySizeV3", "Identity"}, trans : {0}, plain : {FALSE}]
    \cup [type : {"TensorArrayGatherV3"}, trans : 0..MaxTrans, plain : Bool]

ExitConsumerList(cfg, i) ==
    <<ExitConsumerName(i)>>
    \o [k \in 1..(2 * cfg[i].trans) |->
           IF k % 2 = 1 THEN TransName(i, (k + 1) \div 2) ELSE OutputName(i, k \div 2)]
    \o (IF cfg[i].plain THEN <<PlainName(i)>> ELSE <<>>)

RECURSIVE ExitConsumerSeq(_, _)
ExitConsumerSeq(cfg, i) ==
    IF i > Len(cfg) THEN <<>>
    ELSE ExitConsumerList(cfg, i) \o ExitConsumerSeq(cfg, i + 1)

OutputGraphNode(cfg, n) ==
    CASE n[1] = "exit_consumer" -> Node(cfg[n[2]].type, <<Out(ExitNode, 0)>>, NoAttr)
      [] n[1] = "rnn/transpose" ->
            Node("Transpose", <<Out(ExitConsumerName(n[2] \div 10), 0)>>,
                 [perm |-> TimeMajorPerm])
      [] n[1] = "output" -> Node("Identity", <<Out(<<"rnn/transpose", n[2]>>, 0)>>, NoAttr)
      [] n[1] = "plain" ->
            Node("Transpose", <<Out(ExitConsumerName(n[2]), 0)>>, [perm |-> <<0, 2, 1>>])
      [] n[1] = "Exit" -> Node("Exit", <<Out(<<"Switch", 0>>, 0)>>, NoAttr)
      [] OTHER -> Node("LSTM", <<>>, NoAttr)

InitOutput ==
    \E len \in 0..MaxExitConsumers, time_major \in Bool :
        \E cfg \in [1..len -> ExitConsumerConfigs] :
            LET list == <<LstmNode, ExitNode>> \o ExitConsumerSeq(cfg, 1)
            IN  /\ all_nodes = list
                /\ nodes = [n \in Range(list) |-> OutputGraphNode(cfg, n)]
                /\ rnn_props = NewRnnProps(time_major, OtherInputs)
                /\ call = [lstm_node |-> LstmNode, exit_node |-> ExitNode]
                /\ const_val = <<>>
                /\ must_keep_nodes = <<>>
                /\ match = <<>>
                /\ rnn_weights = NoWeights
                /\ name_counter = 0
                /\ ret = [fn |-> "", value |-> None]
                /\ pc = "start"

\* the graph as the call leaves it, and whether it raised
ConnectLstmOutputEnds(st) ==
    /\ nodes' = st.nodes
    /\ all_nodes' = st.all_nodes
    /\ name_counter' = st.name_counter
    /\ ret' = [fn |-> "_connect_lstm_output_to_graph", value |-> st.error]
    /\ pc' = IF st.error = None THEN "connected" ELSE "fatal"

ConnectLstmOutputToGraph ==
    /\ pc = "start"
    /\ ConnectLstmOutputEnds(
           _connect_lstm_output_to_graph(CurrentState, call.lstm_node, call.exit_node,
                                         rnn_props))
    /\ UNCHANGED <<match, rnn_weights, rnn_props, const_val, must_keep_nodes, call>>

NextOutput == ConnectLstmOutputToGraph

SpecOutput == InitOutput /\ [][NextOutput]_vars

(***************************************************************************)
(* Claims about the accumulated-output reconnection.                       *)
(***************************************************************************)
ExitConsumers == find_output_consumers(Out(ExitNode, 0))

ExitConsumersOfType(type) ==
    {i \in DOMAIN ExitConsumers : nodes[ExitConsumers[i]].type = type}

SizeAndGather ==
    /\ Len(ExitConsumers) = 2
    /\ Cardinality(ExitConsumersOfType("TensorArraySizeV3")) = 1
    /\ Cardinality(ExitConsumersOfType("TensorArrayGatherV3")) = 1

Readers(ns, output) == {n \in DOMAIN ns : output \in Range(ns[n].input)}

\* C4, as stated: whenever the consumers of the exit tensor are anything but
\* exactly one TensorArraySizeV3 and one TensorArrayGatherV3, the call raises;
\* and when it raises the exit check's error, it has made no node and
\* rewritten no input.
C4_RaisesUnlessSizeAndGather ==
    [][ (pc = "start" /\ pc' # "start" /\ ~SizeAndGather) =>
            /\ pc' = "fatal"
            /\ ret'.value = ExitCheckError =>
                  (nodes' = nodes /\ all_nodes' = all_nodes) ]_vars

\* C5: for a batch-major match whose exit tensor is read by exactly a size
\* query and a gather, and whose gathered tensor is read by exactly one
\* time-major transpose, the call leaves a new Squeeze of axis 1 reading the
\* fused node's output 0 and a new Transpose with perm [1,0,2] reading that
\* Squeeze; every node that read the old transpose's output reads the new
\* Transpose, and no node of the graph reads the old transpose's output.
C5_BatchMajorReconnected ==
    [][ (pc = "start" /\ pc' = "connected" /\ ~rnn_props.time_major /\ SizeAndGather) =>
            LET gather == ExitConsumers[CHOOSE i \in ExitConsumersOfType("TensorArrayGatherV3") : TRUE]
                old == {n \in Readers(nodes, Out(gather, 0)) :
                           /\ nodes[n].type = "Transpose"
                           /\ nodes[n].attr.perm = <<1, 0, 2>>}
                made == DOMAIN nodes' \ DOMAIN nodes
            IN  /\ Cardinality(old) = 1
                /\ \E sq \in made, nt \in made :
                      /\ made = {sq, nt}
                      /\ nodes'[sq].type = "Squeeze"
                      /\ nodes'[sq].attr = [axes |-> <<1>>]
                      /\ nodes'[sq].input = <<Out(call.lstm_node, 0)>>
                      /\ nodes'[nt].type = "Transpose"
                      /\ nodes'[nt].attr = [perm |-> <<1, 0, 2>>]
                      /\ nodes'[nt].input = <<Out(sq, 0)>>
                      /\ {sq, nt} \subseteq Range(all_nodes')
                      /\ \A t \in old :
                            /\ \A n \in Readers(nodes, Out(t, 0)) :
                                  Out(nt, 0) \in Range(nodes'[n].input)
                            /\ Readers(nodes', Out(t, 0)) = {} ]_vars

C5_Witness ==
    /\ pc = "connected" /\ ~rnn_props.time_major
    /\ \E t \in DOMAIN nodes, n \in DOMAIN nodes :
          /\ t[1] = "Transpose" /\ n[1] = "output"
          /\ nodes[n].input = <<Out(t, 0)>>
    /\ \E g \in DOMAIN nodes : nodes[g].type = "TensorArraySizeV3"

(***************************************************************************)
(* The tuple branch, call by call: _process_tuple_ch_init_nodes runs       *)
(* _process_c_or_h_init_nodes for 'ht' (line 275) and then for 'ct'        *)
(* (line 276).                                                             *)
(***************************************************************************)
\* the return of one call, or the exception it ends with
ProcessCOrHInitNodesEnds(r, key) ==
    /\ nodes' = r.st.nodes
    /\ const_val' = r.st.const_val
    /\ all_nodes' = r.st.all_nodes
    /\ must_keep_nodes' = r.st.must_keep_nodes
    /\ name_counter' = r.st.name_counter
    /\ IF r.st.error = None
       THEN /\ ret' = [fn |-> "_process_c_or_h_init_nodes", value |-> r.id]
            /\ pc' = IF key = "ht" THEN "h_done" ELSE "c_done"
       ELSE /\ ret' = [fn |-> "_process_c_or_h_init_nodes", value |-> r.st.error]
            /\ pc' = "fatal"

ProcessCOrHInitNodesFor(key) ==
    /\ call' = [calls |-> call.calls + 1,
                initializer_input_id |-> rnn_props.var_initializers[key]]
    /\ ProcessCOrHInitNodesEnds(
           _process_c_or_h_init_nodes(CurrentState, rnn_props.var_initializers[key],
                                      rnn_props), key)

ProcessCOrHInitNodes ==
    /\ InitBranch(DOMAIN rnn_props.var_initializers) = "tuple"
    /\ pc \in {"start", "h_done"}
    /\ ProcessCOrHInitNodesFor(IF pc = "start" THEN "ht" ELSE "ct")
    /\ UNCHANGED <<match, rnn_weights, rnn_props>>

NextTuple == ProcessCOrHInitNodes

SpecTuple == InitBuilder /\ [][NextTuple]_vars

(***************************************************************************)
(* Claim about the tuple branch.                                           *)
(***************************************************************************)
\* the call that just returned was given a non-constant, non-Fill initializer
ExpandedLiveValue ==
    /\ pc \in {"h_done", "c_done"}
    /\ nodes[call.initializer_input_id[1]].type \notin {"Fill", "Const"}

\* C11: after _process_c_or_h_init_nodes on a non-constant, non-Fill
\* initializer, every node that read the initializer tensor before the call
\* reads the new Unsqueeze node's output and no longer the initializer; the
\* Unsqueeze node is new and reads the initializer tensor, not its own
\* output; and no other node reads the initializer tensor.
C11_ConsumersMigrated ==
    [][ (call' # call /\ ExpandedLiveValue') =>
            LET id == call'.initializer_input_id
                u == ret'.value[1]
            IN  /\ u \notin DOMAIN nodes
                /\ nodes'[u].type = "Unsqueeze"
                /\ nodes'[u].input = <<id>>
                /\ \A n \in Readers(nodes, id) :
                       /\ Out(u, 0) \in Range(nodes'[n].input)
                       /\ id \notin Range(nodes'[n].input)
                /\ Readers(nodes', id) = {u} ]_vars

\* both slots name one live value: the second call finds the first call's
\* Unsqueeze reading the initializer, and moves it
C11_Witness ==
    /\ pc = "c_done"
    /\ ExpandedLiveValue
    /\ rnn_props.var_initializers["ht"] = rnn_props.var_initializers["ct"]
    /\ \E u1 \in DOMAIN nodes :
           /\ nodes[u1].type = "Unsqueeze"
           /\ nodes[u1].input = <<ret.value>>
           /\ nodes[ret.value[1]].input = <<call.initializer_input_id>>

(***************************************************************************)
(* State reconnectors: _connect_lstm_yh_to_graph, _connect_lstm_yc_to_graph *)
(* and _connect_lstm_ych_to_graph.  Each returns the state it leaves.      *)
(***************************************************************************)
_connect_lstm_yh_to_graph(st, lstm_node, exit_node, props) ==
    LET output_id == Out(lstm_node, 1)
        squeeze_node == <<"Squeeze", st.name_counter + 1>>
        made == WithNode(st, squeeze_node,
                    Node("Squeeze", <<output_id>>, [axes |-> <<0>>]))
        all == Append(st.all_nodes, squeeze_node)
    IN  [made EXCEPT
            !.all_nodes = all,
            !.nodes = replace_all_inputs(made.nodes, all, Out(exit_node, 0),
                                         Out(squeeze_node, 0)),
            !.name_counter = @ + 1]

_connect_lstm_yc_to_graph(st, lstm_node, exit_node, props) ==
    LET output_id == Out(lstm_node, 2)
        squeeze_node == <<"Squeeze", st.name_counter + 1>>
        made == WithNode(st, squeeze_node,
                    Node("Squeeze", <<output_id>>, [axes |-> <<0>>]))
        all == Append(st.all_nodes, squeeze_node)
    IN  [made EXCEPT
            !.all_nodes = all,
            !.nodes = replace_all_inputs(made.nodes, all, Out(exit_node, 0),
                                         Out(squeeze_node, 0)),
            !.name_counter = @ + 1]

\* a slip: the hidden state is put before the cell state
_connect_lstm_ych_hidden_first(st, lstm_node, exit_node, props) ==
    LET concat == <<"Concat", st.name_counter + 1>>
        squeeze_node == <<"Squeeze", st.name_counter + 2>>
        st1 == WithNode(st, concat,
                   Node("Concat", <<Out(lstm_node, 1), Out(lstm_node, 2)>>,
                        [axis |-> 2]))
        made == WithNode(st1, squeeze_node,
                    Node("Squeeze", <<Out(concat, 0)>>, [axes |-> <<0>>]))
        all == st.all_nodes \o <<concat, squeeze_node>>
    IN  [made EXCEPT
            !.all_nodes = all,
            !.nodes = replace_all_inputs(made.nodes, all, Out(exit_node, 0),
                                         Out(squeeze_node, 0)),
            !.name_counter = @ + 2]

_connect_lstm_ych_to_graph(st, lstm_node, exit_node, props) ==
    LET concat == <<"Concat", st.name_counter + 1>>
        squeeze_node == <<"Squeeze", st.name_counter + 2>>
        st1 == WithNode(st, concat,
                   Node("Concat", <<Out(lstm_node, 2), Out(lstm_node, 1)>>,
                        [axis |-> 2]))
        made == WithNode(st1, squeeze_node,
                    Node("Squeeze", <<Out(concat, 0)>>, [axes |-> <<0>>]))
        all == st.all_nodes \o <<concat, squeeze_node>>
    IN  [made EXCEPT
            !.all_nodes = all,
            !.nodes = replace_all_inputs(made.nodes, all, Out(exit_node, 0),
                                         Out(squeeze_node, 0)),
            !.name_counter = @ + 2]

\* self.switch_checkers: the reconnector of each slot
SwitchConnector(key, st, lstm_node, exit_node, props) ==
    CASE key = "ct" -> _connect_lstm_yc_to_graph(st, lstm_node, exit_node, props)
      [] key = "ht" -> _connect_lstm_yh_to_graph(st, lstm_node, exit_node, props)
      [] key = "ct_ht" -> _connect_lstm_ych_to_graph(st, lstm_node, exit_node, props)

(***************************************************************************)
(* The state exits of one match reconnected one after the other.  Each     *)
(* slot's loop-exit tensor is read by up to MaxStateConsumers nodes: nodes *)
(* of the original graph, and Slice or Unsqueeze nodes an earlier rewrite  *)
(* made when the exit tensor is the initial state of another loop.         *)
(***************************************************************************)
MaxStateConsumers == 3

StateExitNode(key) == <<"Exit", key>>
StateConsumerName(i) == <<"state_consumer", i>>

SlotCombinations == {{"ct_ht"}, {"ct", "ht"}}

\* absent, or a node of some type reading one or more of the exits
StateConsumerConfigs(keys) ==
    {[present |-> FALSE, type |-> "", reads |-> {}]} \cup
    {[present |-> TRUE, type |-> t, reads |-> r] :
        t \in {"Identity", "Slice", "Unsqueeze"}, r \in (SUBSET keys) \ {{}}}

RECURSIVE StateConsumerInputs(_, _)
StateConsumerInputs(reads, i) ==
    IF i > Len(SlotNames) THEN <<>>
    ELSE (IF SlotNames[i] \in reads THEN <<Out(StateExitNode(SlotNames[i]), 0)>>
          ELSE <<>>)
         \o StateConsumerInputs(reads, i + 1)

RECURSIVE StateConsumerSeq(_, _)
StateConsumerSeq(cfg, i) ==
    IF i > MaxStateConsumers THEN <<>>
    ELSE (IF cfg[i].present THEN <<StateConsumerName(i)>> ELSE <<>>)
         \o StateConsumerSeq(cfg, i + 1)

RECURSIVE StateExitSeq(_, _)
StateExitSeq(keys, i) ==
    IF i > Len(SlotNames) THEN <<>>
    ELSE (IF SlotNames[i] \in keys THEN <<StateExitNode(SlotNames[i])>> ELSE <<>>)
         \o StateExitSeq(keys, i + 1)

StateGraphNode(cfg, n) ==
    CASE n[1] = "state_consumer" ->
            Node(cfg[n[2]].type, StateConsumerInputs(cfg[n[2]].reads, 1), NoAttr)
      [] n[1] = "Exit" -> Node("Exit", <<Out(<<"Switch", n[2]>>, 0)>>, NoAttr)
      [] OTHER -> Node("LSTM", <<>>, NoAttr)

InitConnect ==
    \E keys \in SlotCombinations :
      \E cfg \in [1..MaxStateConsumers -> StateConsumerConfigs(keys)] :
        LET list == StateExitSeq(keys, 1) \o StateConsumerSeq(cfg, 1) \o <<LstmNode>>
        IN  /\ all_nodes = list
            /\ nodes = [n \in Range(list) |-> StateGraphNode(cfg, n)]
            /\ const_val = <<>>
            /\ must_keep_nodes = <<>>
            /\ rnn_props = [NewRnnProps(TRUE, OtherInputs) EXCEPT
                               !.var_initializers =
                                   [k \in keys |-> Out(<<"init", k>>, 0)]]
            /\ match = <<>>
            /\ rnn_weights = NoWeights
            /\ name_counter = 0
            /\ call = [key |-> "", done |-> {}]
            /\ ret = [fn |-> "", value |-> None]
            /\ pc = "start"

ConnectLstmStateEnds(st) ==
    /\ nodes' = st.nodes
    /\ const_val' = st.const_val
    /\ all_nodes' = st.all_nodes
    /\ must_keep_nodes' = st.must_keep_nodes
    /\ name_counter' = st.name_counter

\* the driver runs the reconnector of a slot whose exit is not yet rewired
ConnectLstmStateToGraph ==
    /\ pc \in {"start", "connecting"}
    /\ \E key \in DOMAIN rnn_props.var_initializers \ call.done :
          /\ call' = [key |-> key, done |-> call.done \cup {key}]
          /\ pc' = IF call.done \cup {key} = DOMAIN rnn_props.var_initializers
                   THEN "connected" ELSE "connecting"
          /\ ConnectLstmStateEnds(
                 SwitchConnector(key, CurrentState, LstmNode, StateExitNode(key),
                                 rnn_props))
    /\ ret' = [fn |-> "connect", value |-> None]
    /\ UNCHANGED <<match, rnn_weights, rnn_props>>

NextConnect == ConnectLstmStateToGraph

SpecConnect == InitConnect /\ [][NextConnect]_vars

(***************************************************************************)
(* Claim about the state reconnectors.                                     *)
(***************************************************************************)
\* the new nodes a call made
MadeBy(before, after) == DOMAIN after \ DOMAIN before

\* sq squeezes axis 0 of what the slot's exit stands for: fused output 1
\* for 'ht', fused output 2 for 'ct', and for 'ct_ht' a new Concat on axis 2
\* of fused output 2 then fused output 1
SqueezesFusedState(key, sq, before, after) ==
    /\ after[sq].type = "Squeeze"
    /\ after[sq].attr.axes = <<0>>
    /\ CASE key = "ht" -> after[sq].input = <<Out(LstmNode, 1)>>
         [] key = "ct" -> after[sq].input = <<Out(LstmNode, 2)>>
         [] key = "ct_ht" ->
              \E cc \in MadeBy(before, after) :
                  /\ after[cc].type = "Concat"
                  /\ after[cc].attr.axis = 2
                  /\ after[cc].input = <<Out(LstmNode, 2), Out(LstmNode, 1)>>
                  /\ after[sq].input = <<Out(cc, 0)>>

\* C12: after the reconnection of the 'ht', 'ct' or 'ct_ht' exit no node of
\* the graph reads the old loop-exit tensor, and every node that read it
\* reads the new squeezed tensor, which comes from fused output 1 for 'ht',
\* fused output 2 for 'ct', and the axis-2 concatenation of fused output 2
\* then fused output 1 for 'ct_ht'.
C12_NoStaleExitReader ==
    [][ call' # call =>
            LET exit == Out(StateExitNode(call'.key), 0)
            IN  /\ Readers(nodes', exit) = {}
                /\ \E sq \in MadeBy(nodes, nodes') :
                       /\ SqueezesFusedState(call'.key, sq, nodes, nodes')
                       /\ \A n \in Readers(nodes, exit) :
                              Out(sq, 0) \in Range(nodes'[n].input) ]_vars

\* the combined exit was read by a node an earlier rewrite made and by a
\* node of the original graph; both now read the squeezed concatenation
C12_Witness ==
    /\ pc = "connected"
    /\ call.key = "ct_ht"
    /\ \E sq \in DOMAIN nodes, a, b \in DOMAIN nodes :
           /\ nodes[sq].type = "Squeeze"
           /\ nodes[a].type = "Slice"
           /\ nodes[b].type = "Identity"
           /\ nodes[a].input = <<Out(sq, 0)>>
           /\ nodes[b].input = <<Out(sq, 0)>>

(***************************************************************************)
(* Claim about the packed cell+hidden layout.                              *)
(***************************************************************************)
\* the tensor id is the output of an Unsqueeze on axis 0 of a Slice of the
\* packed initializer along axis 1 from column lo up to column hi
UnsqueezedSlice(id, packed, lo, hi) ==
    /\ id[1] \in DOMAIN nodes
    /\ nodes[id[1]].type = "Unsqueeze"
    /\ nodes[id[1]].attr.axes = <<0>>
    /\ LET sl == nodes[id[1]].input[1][1]
       IN  /\ sl \in DOMAIN nodes
           /\ nodes[sl].type = "Slice"
           /\ nodes[sl].input = <<packed>>
           /\ nodes[sl].attr.axes = <<1>>
           /\ nodes[sl].attr.starts = <<lo>>
           /\ nodes[sl].attr.ends = <<hi>>

\* the builder took the shared branch on a packed initializer that is no Fill
SharedNonFillBuilt ==
    /\ pc = "built"
    /\ ret.fn = "process_var_init_nodes"
    /\ InitBranch(SlotKeys) = "shared"
    /\ nodes[rnn_props.var_initializers["ct_ht"][1]].type # "Fill"

\* C13, as stated: in the shared non-Fill branch onnx_input_ids['initial_c']
\* is the unsqueezed slice [0, hidden) of the packed initializer, the cell
\* half of the classifier and of the combined-output reconnector, and
\* onnx_input_ids['initial_h'] is the unsqueezed slice [hidden, 2*hidden).
C13_CellHalfIsInitialC ==
    SharedNonFillBuilt =>
        LET packed == rnn_props.var_initializers["ct_ht"]
            hidden == rnn_props.hidden_size
        IN  /\ UnsqueezedSlice(rnn_props.onnx_input_ids["initial_c"],
                               packed, 0, hidden)
            /\ UnsqueezedSlice(rnn_props.onnx_input_ids["initial_h"],
                               packed, hidden, 2 * hidden)

====
